---- MODULE Spec2Model ----
(***************************************************************************)
(* DocuScan web client (static/script.js, current variant, lines 586-1430) *)
(* The page is a single-threaded event loop: every handler and every       *)
(* asynchronous callback (FileReader, $.ajax, setTimeout/fadeOut) runs to   *)
(* completion and is one action here.  Pending callbacks are state.        *)
(***************************************************************************)
EXTENDS Integers, Sequences, FiniteSets, TLC

(* ------------------------------ bounds -------------------------------- *)
\* number of file reads (accepted acquisitions) started in one page session
MaxAcquire == 2
\* number of clipboard exports (copyImageAsFile calls that reach fetch)
MaxExports == 2
\* length of a file size written in base 1024 (5 digits: sizes up to 1024^5 - 1)
MaxDigits == 5

(* --------------------------- program constants ------------------------ *)
\* script.js:735  const maxSize = 10 * 1024 * 1024
maxSize == 10 * 1024 * 1024

(* ------------------------------ strings ------------------------------- *)
\* The characters of the strings the code inspects with startsWith/indexOf.
chars(s) ==
  CASE s = "image/png"  -> <<"i","m","a","g","e","/","p","n","g">>
    [] s = "image/jpeg" -> <<"i","m","a","g","e","/","j","p","e","g">>
    [] s = "image/jpg"  -> <<"i","m","a","g","e","/","j","p","g">>
    [] s = "image/webp" -> <<"i","m","a","g","e","/","w","e","b","p">>
    [] s = "image/gif"  -> <<"i","m","a","g","e","/","g","i","f">>
    [] s = "image/bmp"  -> <<"i","m","a","g","e","/","b","m","p">>
    [] s = "image/svg+xml" -> <<"i","m","a","g","e","/","s","v","g","+","x","m","l">>
    [] s = "data:image/jpeg" -> <<"d","a","t","a",":","i","m","a","g","e","/","j","p","e","g">>
    [] s = "data:image/png"  -> <<"d","a","t","a",":","i","m","a","g","e","/","p","n","g">>
    [] s = "data:image/gif"  -> <<"d","a","t","a",":","i","m","a","g","e","/","g","i","f">>
    [] s = "data:image/webp" -> <<"d","a","t","a",":","i","m","a","g","e","/","w","e","b","p">>
    [] s = "data:image/svg"  -> <<"d","a","t","a",":","i","m","a","g","e","/","s","v","g">>
    [] s = "data:image/bmp"  -> <<"d","a","t","a",":","i","m","a","g","e","/","b","m","p">>
    [] s = "text/plain" -> <<"t","e","x","t","/","p","l","a","i","n">>
    [] s = "x-image"    -> <<"x","-","i","m","a","g","e">>
    [] s = "image/"     -> <<"i","m","a","g","e","/">>
    [] s = "image"      -> <<"i","m","a","g","e">>
    [] s = ""           -> << >>

\* String.prototype.startsWith
startsWith(s, p) ==
  /\ Len(chars(s)) >= Len(chars(p))
  /\ SubSeq(chars(s), 1, Len(chars(p))) = chars(p)

\* String.prototype.indexOf (0-based, -1 when absent)
indexOf(s, p) ==
  LET S == chars(s)
      P == chars(p)
      hits == { i \in 1..(Len(S) - Len(P) + 1) : SubSeq(S, i, i + Len(P) - 1) = P }
  IN IF hits = {} THEN -1
     ELSE (CHOOSE i \in hits : \A j \in hits : i <= j) - 1

(* ------------------------------- inputs ------------------------------- *)
\* declared types a candidate can carry; "x-image" contains the word image
\* without the image/ prefix
File(t, s) == [type |-> t, size |-> s, bytes |-> <<t, s>>]

\* candidate File objects: the bytes of a file are identified by type and size
CandidateFiles ==
  { File("image/png", maxSize), File("image/jpeg", maxSize - 1),
    File("image/jpeg", maxSize + 1), File("text/plain", maxSize + 1),
    File("x-image", maxSize) }

NoFile == [type |-> "", size |-> 0, bytes |-> << >>]

\* null, as the value of a variable that otherwise holds a data URI or a Blob
NoImage == [null |-> TRUE]

\* FileReader.readAsDataURL: "data:<type>;base64,<base64 of the bytes>"
readAsDataURL(blob) ==
  [scheme |-> "data", mime |-> blob.type, base64 |-> <<"b64", blob.bytes>>]

\* the body of a 200 response of POST /process-image for payload img
ProcessedBlob(img) ==
  [type |-> "image/jpeg", bytes |-> <<"enhanced", img.base64[2]>>]

\* outcomes of a failed $.ajax call: textStatus, xhr.status, response body
\* (body: "detail" = JSON with a detail, "emptydetail" = JSON whose
\*  detail is the empty string, "nodetail" = JSON without a detail,
\*  "text" = not JSON, "" = no body)
AjaxFailures ==
  { [status |-> "timeout", code |-> 0,   body |-> ""],
    [status |-> "error",   code |-> 0,   body |-> ""],
    [status |-> "error",   code |-> 400, body |-> "detail"],
    [status |-> "error",   code |-> 500, body |-> "text"] }

KeyEvents ==
  { [key |-> "r",      ctrlKey |-> TRUE,  metaKey |-> FALSE],
    [key |-> "r",      ctrlKey |-> FALSE, metaKey |-> TRUE],
    [key |-> "r",      ctrlKey |-> FALSE, metaKey |-> FALSE],
    [key |-> "Enter",  ctrlKey |-> FALSE, metaKey |-> FALSE],
    [key |-> "Escape", ctrlKey |-> FALSE, metaKey |-> FALSE] }

(* ------------------------------ platform ------------------------------ *)
\* script.js:1213-1218 supportedTypes
supportedTypes == <<"image/png", "image/jpeg", "image/webp", "image/gif">>

\* A browser as the export sees it: whether navigator.clipboard.write exists
\* (1297), the MIME types navigator.clipboard.write accepts, and how
\* convertImageToPNG ends on it (1173-1209): "ok" resolves a PNG blob,
\* "loadError" is img.onerror, "noBlob" is canvas.toBlob yielding null.
Platforms ==
  { [clipboard |-> TRUE, accepts |-> a, convert |-> k] :
      a \in SUBSET { supportedTypes[i] : i \in 1..Len(supportedTypes) },
      k \in {"ok", "loadError", "noBlob"} }
  \cup { [clipboard |-> FALSE, accepts |-> {}, convert |-> "ok"] }

\* a browser without navigator.clipboard.write
NoClipboard == [clipboard |-> FALSE, accepts |-> {}, convert |-> "ok"]

\* no function application
NoCall == [f |-> "none"]

(* ------------------------------- state -------------------------------- *)
VARIABLES
  currentImageData,      \* script.js:586
  processedImageBlob,    \* script.js:587
  processedImageBase64,  \* script.js:588
  fileReaders,           \* FileReaders of handleImageFile still reading
  requests,              \* $.ajax calls of processImage not yet resolved
  blobReaders,           \* FileReaders of the success callback still reading
  displayTimers,         \* setTimeout(800)+fadeOut(300) chains not yet finished
  dom,                   \* visibility of the page elements the script toggles
  nReads,                \* reader.readAsDataURL(file) calls so far
  nAcquired,             \* reader.onload (of handleImageFile) runs so far
  nIssued,               \* $.ajax calls so far
  last,                  \* the handler that ran last, its input and outcome
  platform,              \* the browser: clipboard API, MIME types it accepts, canvas
  exports,               \* copyImageAsFile calls: position, blobs, log, toast
  clipboard,             \* the ClipboardItem the system clipboard holds
  nExports,              \* copyImageAsFile calls that reached fetch so far
  fn                     \* a function applied on its own: name, input, output

vars == <<currentImageData, processedImageBlob, processedImageBase64,
          fileReaders, requests, blobReaders, displayTimers,
          dom, nReads, nAcquired, nIssued, last,
          platform, exports, clipboard, nExports, fn>>

\* the variables of the clipboard export and of the function applications
exportVars == <<platform, exports, clipboard, nExports, fn>>

\* index.html: #pasteArea and #noImagePlaceholder start visible, the other
\* containers carry style="display: none"
InitDom ==
  [ pasteArea               |-> TRUE,
    loadingState            |-> FALSE,
    originalImageContainer  |-> FALSE,
    noImagePlaceholder      |-> TRUE,
    processingContainer     |-> FALSE,
    processedImageContainer |-> FALSE,
    processedImageSrc       |-> NoImage,
    errorAlert              |-> FALSE ]

Init ==
  /\ currentImageData = NoImage
  /\ processedImageBlob = NoImage
  /\ processedImageBase64 = NoImage
  /\ fileReaders = {}
  /\ requests = {}
  /\ blobReaders = {}
  /\ displayTimers = 0
  /\ dom = InitDom
  /\ nReads = 0
  /\ nAcquired = 0
  /\ nIssued = 0
  /\ last = [op |-> "init", file |-> NoFile, outcome |-> "none"]
  /\ platform = NoClipboard
  /\ exports = {}
  /\ clipboard = NoImage
  /\ nExports = 0
  /\ fn = NoCall

(* ------------------------------ helpers ------------------------------- *)
\* script.js:1009-1022 showError(message): shows #errorAlert (its fadeOut
\* after 8000 ms is AlertFadeOut).  The message a handler shows is recorded
\* as the handler's outcome in last.
showError(d) == [d EXCEPT !.errorAlert = TRUE]

\* script.js:1036-1038 hideAlerts
hideAlerts(d) == [d EXCEPT !.errorAlert = FALSE]

\* script.js:765-769 showImageLoadingState
showImageLoadingState(d) == [d EXCEPT !.loadingState = TRUE]

\* script.js:772-776 hideImageLoadingState
hideImageLoadingState(d) == [d EXCEPT !.loadingState = FALSE]

\* script.js:779-793 showOriginalImage
showOriginalImage(d) ==
  hideImageLoadingState([d EXCEPT !.pasteArea = FALSE, !.originalImageContainer = TRUE])

\* validate with the size limit made exclusive (size >= maxSize rejected)
validate_sizeInclusive(file) ==
  IF ~startsWith(file.type, "image/") THEN "WrongType"
  ELSE IF file.size >= maxSize THEN "TooLarge"
  ELSE "Accepted"

\* validate with the two checks in the other order
validate_sizeFirst(file) ==
  IF file.size > maxSize THEN "TooLarge"
  ELSE IF ~startsWith(file.type, "image/") THEN "WrongType"
  ELSE "Accepted"

\* script.js:729 and 736: the two validations of handleImageFile, in order
validate(file) ==
  IF ~startsWith(file.type, "image/") THEN "WrongType"
  ELSE IF file.size > maxSize THEN "TooLarge"
  ELSE "Accepted"

\* script.js:822-824 xhrFields: { responseType: 'blob' }
responseType == "blob"

\* The responseText of the jqXHR handed to the error callback, for a response
\* with this body: jQuery fills responseText only for a text response; with
\* any other responseType the property is left undefined.
responseText(body) == IF responseType = "text" THEN body ELSE "undefined"

\* the jqXHR of a failed call, as the error callback receives it
jqXHR(f) == [f EXCEPT !.body = responseText(f.body)]

\* script.js:898 JSON.parse(xhr.responseText): whether it returns, and the
\* detail of the object it returns ("" when empty or absent)
parses(body) == body \in {"detail", "emptydetail", "nodetail"}
detail(body) == IF body = "detail" THEN "ServerDetail" ELSE ""

\* handleProcessingError with the status 0 test moved in front of the
\* timeout test
handleProcessingError_statusFirst(f) ==
  IF f.code = 0 THEN "NetworkFailure"
  ELSE IF f.status = "timeout" THEN "Timeout"
  ELSE IF f.code = 413 THEN "PayloadTooLarge"
  ELSE IF f.code = 400 THEN
         (IF parses(f.body)
          THEN (IF detail(f.body) # "" THEN detail(f.body) ELSE "ProcessingError")
          ELSE "UnsupportedFormat")
  ELSE IF f.code >= 500 THEN "ServerUnavailable"
  ELSE "ProcessingError"

\* script.js:889-910 handleProcessingError: the message shown for a failure
\* (897-902: response.detail || errorMsg, and the catch of JSON.parse)
handleProcessingError(f) ==
  IF f.status = "timeout" THEN "Timeout"
  ELSE IF f.code = 413 THEN "PayloadTooLarge"
  ELSE IF f.code = 400 THEN
         (IF parses(f.body)
          THEN (IF detail(f.body) # "" THEN detail(f.body) ELSE "ProcessingError")
          ELSE "UnsupportedFormat")
  ELSE IF f.code = 0 THEN "NetworkFailure"
  ELSE IF f.code >= 500 THEN "ServerUnavailable"
  ELSE "ProcessingError"

(* ------------------------------ actions ------------------------------- *)
\* handleImageFile whose validation branches lack their return: the error is
\* shown and the file is read all the same
handleImageFile_noReturn(op, file) ==
  LET v == validate(file) IN
  /\ nReads < MaxAcquire
  /\ dom' = showImageLoadingState(IF v # "Accepted" THEN showError(dom) ELSE dom)
  /\ fileReaders' = fileReaders \cup {[id |-> nReads + 1, file |-> file]}
  /\ nReads' = nReads + 1
  /\ last' = [op |-> op, file |-> file,
              outcome |-> IF v # "Accepted" THEN v ELSE "Reading"]
  /\ UNCHANGED <<currentImageData, processedImageBlob, processedImageBase64,
                 requests, blobReaders, displayTimers, nAcquired, nIssued>>

\* script.js:727-762 handleImageFile(file), entered from input path op
handleImageFile(op, file) ==
  LET v == validate(file) IN
  IF v # "Accepted"
  THEN /\ dom' = showError(dom)
       /\ last' = [op |-> op, file |-> file, outcome |-> v]
       /\ UNCHANGED <<currentImageData, processedImageBlob, processedImageBase64,
                      fileReaders, requests, blobReaders, displayTimers,
                      nReads, nAcquired, nIssued>>
  ELSE /\ nReads < MaxAcquire
       /\ dom' = showImageLoadingState(dom)
       /\ fileReaders' = fileReaders \cup {[id |-> nReads + 1, file |-> file]}
       /\ nReads' = nReads + 1
       /\ last' = [op |-> op, file |-> file, outcome |-> "Reading"]
       /\ UNCHANGED <<currentImageData, processedImageBlob, processedImageBase64,
                      requests, blobReaders, displayTimers, nAcquired, nIssued>>

\* script.js:618-623 change handler of #fileInput (also reached through
\* selectNewImage, script.js:796-798)
FilePick(file) == handleImageFile("filePick", file)

\* script.js:600-610 paste handler, for a clipboard holding one item
Paste(file) ==
  IF indexOf(file.type, "image") # -1
  THEN handleImageFile("paste", file)
  ELSE /\ last' = [op |-> "paste", file |-> file, outcome |-> "Ignored"]
       /\ UNCHANGED <<currentImageData, processedImageBlob, processedImageBase64,
                      fileReaders, requests, blobReaders, displayTimers,
                      dom, nReads, nAcquired, nIssued>>

\* script.js:636-646 drop handler; file = NoFile is a drop that carries no file
Drop(file) ==
  IF file # NoFile /\ startsWith(file.type, "image/")
  THEN handleImageFile("drop", file)
  ELSE /\ dom' = showError(dom)
       /\ last' = [op |-> "drop", file |-> file, outcome |-> "DropInvalid"]
       /\ UNCHANGED <<currentImageData, processedImageBlob, processedImageBase64,
                      fileReaders, requests, blobReaders, displayTimers,
                      nReads, nAcquired, nIssued>>

\* processImage without its guard on currentImageData
processImage_noGuard(img, d) ==
  /\ dom' = hideAlerts([d EXCEPT !.noImagePlaceholder = FALSE,
                                 !.processingContainer = TRUE])
  /\ requests' = requests \cup {[id |-> nIssued + 1, img |-> img]}
  /\ nIssued' = nIssued + 1

\* processImage that returns early while an earlier request is outstanding
processImage_skipWhenBusy(img, d) ==
  IF img = NoImage \/ requests # {}
  THEN /\ dom' = d
       /\ UNCHANGED <<requests, nIssued>>
  ELSE /\ dom' = hideAlerts([d EXCEPT !.noImagePlaceholder = FALSE,
                                      !.processingContainer = TRUE])
       /\ requests' = requests \cup {[id |-> nIssued + 1, img |-> img]}
       /\ nIssued' = nIssued + 1

\* script.js:803-868 processImage(), called with the page in state
\* (img, d): the synchronous part up to and including $.ajax
processImage(img, d) ==
  IF img = NoImage
  THEN /\ dom' = showError(d)
       /\ UNCHANGED <<requests, nIssued>>
  ELSE /\ dom' = hideAlerts([d EXCEPT !.noImagePlaceholder = FALSE,
                                      !.processingContainer = TRUE])
       /\ requests' = requests \cup {[id |-> nIssued + 1, img |-> img]}
       /\ nIssued' = nIssued + 1

\* script.js:745-754 reader.onload of handleImageFile
ReaderOnload(r) ==
  /\ r \in fileReaders
  /\ fileReaders' = fileReaders \ {r}
  /\ currentImageData' = readAsDataURL(r.file)
  /\ nAcquired' = nAcquired + 1
  /\ processImage(currentImageData', showOriginalImage(hideAlerts(dom)))
  /\ last' = [op |-> "readerOnload", file |-> r.file, outcome |-> "Loaded"]
  /\ UNCHANGED <<processedImageBlob, processedImageBase64, blobReaders,
                 displayTimers, nReads>>

\* reader.onerror that shows the error and leaves the loading indicator on
ReaderOnerror_keepsLoading(r) ==
  /\ r \in fileReaders
  /\ fileReaders' = fileReaders \ {r}
  /\ dom' = showError(dom)
  /\ last' = [op |-> "readerOnerror", file |-> r.file, outcome |-> "ReadError"]
  /\ UNCHANGED <<currentImageData, processedImageBlob, processedImageBase64,
                 requests, blobReaders, displayTimers, nReads, nAcquired, nIssued>>

\* script.js:756-759 reader.onerror of handleImageFile
ReaderOnerror(r) ==
  /\ r \in fileReaders
  /\ fileReaders' = fileReaders \ {r}
  /\ dom' = hideImageLoadingState(showError(dom))
  /\ last' = [op |-> "readerOnerror", file |-> r.file, outcome |-> "ReadError"]
  /\ UNCHANGED <<currentImageData, processedImageBlob, processedImageBase64,
                 requests, blobReaders, displayTimers, nReads, nAcquired, nIssued>>

\* script.js:826-855 success callback, then 864-866 complete
AjaxSuccess(q) ==
  /\ q \in requests
  /\ requests' = requests \ {q}
  /\ processedImageBlob' = ProcessedBlob(q.img)
  /\ blobReaders' = blobReaders \cup {[id |-> q.id, blob |-> processedImageBlob']}
  /\ dom' = hideImageLoadingState(dom)
  /\ last' = [op |-> "ajaxSuccess", file |-> NoFile, outcome |-> "Success"]
  /\ UNCHANGED <<currentImageData, processedImageBase64, fileReaders,
                 displayTimers, nReads, nAcquired, nIssued>>

\* error callback that sends the request again
AjaxError_retry(q, f) ==
  /\ q \in requests
  /\ requests' = (requests \ {q}) \cup {[id |-> nIssued + 1, img |-> q.img]}
  /\ nIssued' = nIssued + 1
  /\ dom' = hideImageLoadingState(showError(dom))
  /\ last' = [op |-> "ajaxError", file |-> NoFile, outcome |-> handleProcessingError(jqXHR(f))]
  /\ UNCHANGED <<currentImageData, processedImageBlob, processedImageBase64,
                 fileReaders, blobReaders, displayTimers, nReads, nAcquired>>

\* script.js:856-863 error callback, then 864-866 complete
AjaxError(q, f) ==
  /\ q \in requests
  /\ requests' = requests \ {q}
  /\ dom' = hideImageLoadingState(
              showError([dom EXCEPT !.processingContainer = FALSE,
                                    !.processedImageContainer = FALSE,
                                    !.noImagePlaceholder = TRUE]))
  /\ last' = [op |-> "ajaxError", file |-> NoFile, outcome |-> handleProcessingError(jqXHR(f))]
  /\ UNCHANGED <<currentImageData, processedImageBlob, processedImageBase64,
                 fileReaders, blobReaders, displayTimers, nReads, nAcquired, nIssued>>

\* script.js:831-853 reader.onload of the success callback
BlobReaderOnload(b) ==
  /\ b \in blobReaders
  /\ blobReaders' = blobReaders \ {b}
  /\ processedImageBase64' = readAsDataURL(b.blob)
  /\ displayTimers' = displayTimers + 1
  /\ last' = [op |-> "blobReaderOnload", file |-> NoFile, outcome |-> "Converted"]
  /\ UNCHANGED <<currentImageData, processedImageBlob, fileReaders, requests,
                 dom, nReads, nAcquired, nIssued>>

\* script.js:830-854: the reader of the success callback has no onerror
\* handler; a failed read ends without any effect
BlobReaderError(b) ==
  /\ b \in blobReaders
  /\ blobReaders' = blobReaders \ {b}
  /\ last' = [op |-> "blobReaderError", file |-> NoFile, outcome |-> "Lost"]
  /\ UNCHANGED <<currentImageData, processedImageBlob, processedImageBase64,
                 fileReaders, requests, displayTimers, dom,
                 nReads, nAcquired, nIssued>>

\* script.js:839-852: the 800 ms timer fired and the fadeOut of
\* #processingContainer completed (hiding it) and ran its callback
DisplayResult ==
  /\ displayTimers > 0
  /\ displayTimers' = displayTimers - 1
  /\ dom' = [dom EXCEPT !.processingContainer = FALSE,
                        !.processedImageSrc = processedImageBase64,
                        !.processedImageContainer = TRUE]
  /\ last' = [op |-> "displayResult", file |-> NoFile, outcome |-> "Shown"]
  /\ UNCHANGED <<currentImageData, processedImageBlob, processedImageBase64,
                 fileReaders, requests, blobReaders, nReads, nAcquired, nIssued>>

\* script.js:1018-1021: an 8000 ms timer of showError fired.  Every showError
\* starts one, so one is pending whenever the alert is visible, and a timer
\* that fires on a hidden alert changes nothing.
AlertFadeOut ==
  /\ dom.errorAlert
  /\ dom' = hideAlerts(dom)
  /\ last' = [op |-> "alertFadeOut", file |-> NoFile, outcome |-> "Hidden"]
  /\ UNCHANGED <<currentImageData, processedImageBlob, processedImageBase64,
                 fileReaders, requests, blobReaders, displayTimers,
                 nReads, nAcquired, nIssued>>

\* resetTool that clears only the two variables of the earlier script variant
\* (script.js:357-360) and leaves processedImageBase64
resetTool_keepBase64(op) ==
  /\ currentImageData' = NoImage
  /\ processedImageBlob' = NoImage
  /\ dom' = hideImageLoadingState(hideAlerts(
              [dom EXCEPT !.pasteArea = TRUE,
                          !.originalImageContainer = FALSE,
                          !.processingContainer = FALSE,
                          !.processedImageContainer = FALSE,
                          !.noImagePlaceholder = TRUE]))
  /\ last' = [op |-> op, file |-> NoFile, outcome |-> "Reset"]
  /\ UNCHANGED <<processedImageBase64, fileReaders, requests, blobReaders,
                 displayTimers, nReads, nAcquired, nIssued>>

\* script.js:971-1006 resetTool(), entered from op (button or keyboard)
resetTool(op) ==
  /\ currentImageData' = NoImage
  /\ processedImageBlob' = NoImage
  /\ processedImageBase64' = NoImage
  /\ dom' = hideImageLoadingState(hideAlerts(
              [dom EXCEPT !.pasteArea = TRUE,
                          !.originalImageContainer = FALSE,
                          !.processingContainer = FALSE,
                          !.processedImageContainer = FALSE,
                          !.noImagePlaceholder = TRUE]))
  /\ last' = [op |-> op, file |-> NoFile, outcome |-> "Reset"]
  /\ UNCHANGED <<fileReaders, requests, blobReaders, displayTimers, nReads, nAcquired, nIssued>>

\* unnamed/part_000:1092-1097 the reset button, onclick="resetTool()"
ResetButton == resetTool("resetButton")

\* script.js:649-662 keydown handler
Keydown(e) ==
  IF (e.ctrlKey \/ e.metaKey) /\ e.key = "r"
  THEN resetTool("keydown")
  ELSE /\ last' = [op |-> "keydown", file |-> NoFile, outcome |-> "Ignored"]
       /\ UNCHANGED <<currentImageData, processedImageBlob, processedImageBase64,
                      fileReaders, requests, blobReaders, displayTimers,
                      dom, nReads, nAcquired, nIssued>>

\* script.js:936-968 downloadImage()
downloadImage ==
  IF processedImageBlob = NoImage
  THEN /\ dom' = showError(dom)
       /\ last' = [op |-> "downloadImage", file |-> NoFile, outcome |-> "NoProcessedImage"]
       /\ UNCHANGED <<currentImageData, processedImageBlob, processedImageBase64,
                      fileReaders, requests, blobReaders, displayTimers,
                      nReads, nAcquired, nIssued>>
  ELSE /\ last' = [op |-> "downloadImage",
                   file |-> [type |-> processedImageBlob.type, size |-> 0,
                             bytes |-> processedImageBlob.bytes],
                   outcome |-> "Saved"]
       /\ UNCHANGED <<currentImageData, processedImageBlob, processedImageBase64,
                      fileReaders, requests, blobReaders, displayTimers,
                      dom, nReads, nAcquired, nIssued>>

\* script.js:1397-1404 the beforeunload listener: it asks the user to confirm
\* leaving (preventDefault and returnValue) exactly under its own condition
beforeunload ==
  /\ last' = [op |-> "beforeunload", file |-> NoFile,
              outcome |-> IF currentImageData # NoImage /\ processedImageBlob = NoImage
                          THEN "Confirm" ELSE "Leave"]
  /\ UNCHANGED <<currentImageData, processedImageBlob, processedImageBase64,
                 fileReaders, requests, blobReaders, displayTimers,
                 dom, nReads, nAcquired, nIssued>>

(* -------------------------- clipboard export --------------------------- *)
\* the session variables: the clipboard export reads two of them, writes none
session == <<currentImageData, processedImageBlob, processedImageBase64,
             fileReaders, requests, blobReaders, displayTimers,
             nReads, nAcquired, nIssued>>

\* String.prototype.split(sep) on the characters of a string
RECURSIVE split(_, _)
split(S, sep) ==
  LET hits == { i \in 1..Len(S) : S[i] = sep } IN
  IF hits = {} THEN <<S>>
  ELSE LET i == CHOOSE h \in hits : \A j \in hits : h <= j
       IN <<SubSeq(S, 1, i - 1)>> \o split(SubSeq(S, i + 1, Len(S)), sep)

\* the extension without the 'png' default: whatever follows the first slash
extension_noDefault(mimeType) ==
  LET parts == split(chars(mimeType), "/") IN
  IF Len(parts) >= 2 THEN parts[2] ELSE << >>

\* script.js:1336  finalMimeType.split('/')[1] || 'png'
extension(mimeType) ==
  LET parts == split(chars(mimeType), "/") IN
  IF Len(parts) >= 2 /\ parts[2] # << >> THEN parts[2] ELSE <<"p","n","g">>

\* script.js:1337-1338 the prefix of the file name
prefix(imageType) ==
  IF imageType = "processed" THEN "docuscan_enhanced"
  ELSE IF imageType = "original" THEN "docuscan_original"
  ELSE "docuscan_image"

\* script.js:1339 `${prefix}_${timestamp}.${extension}` (the timestamp is left out)
filename(imageType, mimeType) ==
  [prefix |-> prefix(imageType), extension |-> extension(mimeType)]

\* script.js:1311-1312 fetch(src) then response.blob() of a data URI: the
\* declared type and the decoded bytes
fetchBlob(src) == [type |-> src.mime, bytes |-> src.base64[2]]

\* script.js:1173-1209 convertImageToPNG(blob) on a browser whose canvas
\* behaves as k
convertImageToPNG(blob, k) ==
  IF k = "ok"
  THEN [ok |-> TRUE, blob |-> [type |-> "image/png", bytes |-> <<"png", blob.bytes>>]]
  ELSE [ok |-> FALSE,
        error |-> [name |-> "Error",
                   message |-> IF k = "noBlob" THEN "PNGConvertFailed"
                               ELSE "ImageLoadFailed"]]

\* script.js:1273 throw new Error('...'): a fixed message, nothing else
AllFormatsError == [name |-> "Error", message |-> "AllFormatsRejected"]

\* the per-attempt rejection reasons an error object carries
reasons(error) ==
  IF "reasons" \in DOMAIN error THEN error.reasons ELSE << >>

\* script.js:1366-1386 the message the catch block of copyImageAsFile shows
copyErrorMessage(error) ==
  IF error.name = "NotAllowedError" THEN
       (IF error.message = "not supported on write" THEN "FormatNotSupported"
        ELSE "PermissionDenied")
  ELSE IF error.name = "TypeError" THEN "FormatUnsupported"
  ELSE IF error.message = "fetch" THEN "LoadFailed"
  ELSE IF error.name = "DataCloneError" THEN "DataNotCopyable"
  ELSE IF error.message = "PNGConvertFailed" THEN "ConvertFailed"
  ELSE IF error.message = "AllFormatsRejected" THEN "BrowserUnsupported"
  ELSE "CopyFailed"

\* one entry of an export's log: a navigator.clipboard.write of a ClipboardItem
\* tagged mime, or a convertImageToPNG call, and whether it resolved
writeEvent(mime) == [ev |-> "write", mime |-> mime, ok |-> mime \in platform.accepts]
convertEvent(k) == [ev |-> "convert", mime |-> "image/png", ok |-> k = "ok"]

\* the last loop without its test of blob.type: the blob is written under
\* every remaining type
sweepTypes_noTypeTest(blob, mimeType) ==
  SelectSeq(supportedTypes, LAMBDA t : ~(t = mimeType \/ t = "image/png"))

\* script.js:1248-1270 the last loop of writeToClipboardWithFallback: the
\* types it writes, in order (those it does not skip with continue)
sweepTypes(blob, mimeType) ==
  SelectSeq(supportedTypes,
            LAMBDA t : /\ ~(t = mimeType \/ t = "image/png")
                       /\ ~(t # blob.type))

\* the loop run on blob after the attempts in log: the writes it makes up to
\* the first accepted one
sweep(blob, mimeType, log) ==
  LET sw == sweepTypes(blob, mimeType)
      okIdx == { i \in 1..Len(sw) : sw[i] \in platform.accepts }
      n == IF okIdx = {} THEN Len(sw)
           ELSE CHOOSE h \in okIdx : \A j \in okIdx : h <= j
      log1 == log \o [i \in 1..n |-> writeEvent(sw[i])]
  IN [written |-> IF okIdx = {} THEN NoImage ELSE [mime |-> sw[n], blob |-> blob],
      log |-> log1]

\* copyImageAsFile whose catch block treats a failed export like a failed
\* processing attempt (hides the result, shows the placeholder)
endExport_failsSession(e, log, written, error) ==
  /\ exports' = (exports \ {e}) \cup
       {[e EXCEPT !.pc = "done", !.log = log, !.written = written,
                  !.result = IF written # NoImage
                             THEN [toast |-> "success", filename |-> e.filename]
                             ELSE [toast |-> "error", message |-> copyErrorMessage(error),
                                   error |-> error]]}
  /\ clipboard' = IF written # NoImage THEN written ELSE clipboard
  /\ dom' = IF written # NoImage THEN dom
            ELSE [dom EXCEPT !.processingContainer = FALSE,
                             !.processedImageContainer = FALSE,
                             !.noImagePlaceholder = TRUE]
  /\ last' = [op |-> "copyImageAsFile", file |-> NoFile,
              outcome |-> IF written # NoImage THEN "Copied" ELSE copyErrorMessage(error)]
  /\ UNCHANGED <<session, platform, nExports, fn>>

\* script.js:1341-1394 the end of copyImageAsFile: after a resolved write the
\* success toast with the file name computed before the write; after a throw
\* the catch block's error toast
endExport(e, log, written, error) ==
  /\ exports' = (exports \ {e}) \cup
       {[e EXCEPT !.pc = "done", !.log = log, !.written = written,
                  !.result = IF written # NoImage
                             THEN [toast |-> "success", filename |-> e.filename]
                             ELSE [toast |-> "error", message |-> copyErrorMessage(error),
                                   error |-> error]]}
  /\ clipboard' = IF written # NoImage THEN written ELSE clipboard
  /\ last' = [op |-> "copyImageAsFile", file |-> NoFile,
              outcome |-> IF written # NoImage THEN "Copied" ELSE copyErrorMessage(error)]
  /\ UNCHANGED <<session, dom, platform, nExports, fn>>

\* an export moves on to its next await
stepExport(e, e2, outcome) ==
  /\ exports' = (exports \ {e}) \cup {e2}
  /\ last' = [op |-> "copyImageAsFile", file |-> NoFile, outcome |-> outcome]
  /\ UNCHANGED <<session, dom, platform, clipboard, nExports, fn>>

\* copyImageAsFile without the capability test of its first statement: the
\* export starts whatever the platform offers
copyImageAsFile_noCheck(src, imageType, op) ==
  /\ nExports < MaxExports
  /\ exports' = exports \cup
       {[id |-> nExports + 1, imageType |-> imageType, src |-> src,
         pc |-> "fetch", blob |-> NoImage, finalBlob |-> NoImage,
         finalMimeType |-> "", filename |-> NoImage, pngBlob |-> NoImage,
         log |-> << >>, written |-> NoImage,
         result |-> [toast |-> "none"]]}
  /\ nExports' = nExports + 1
  /\ last' = [op |-> op, file |-> NoFile, outcome |-> "Export"]
  /\ UNCHANGED <<session, dom, platform, clipboard, fn>>

\* script.js:1295-1312 copyImageAsFile(src, imageType, event) up to its
\* first await
copyImageAsFile(src, imageType, op) ==
  IF ~platform.clipboard
  THEN /\ dom' = showError(dom)
       /\ last' = [op |-> op, file |-> NoFile, outcome |-> "ClipboardUnsupported"]
       /\ UNCHANGED <<session, exportVars>>
  ELSE /\ nExports < MaxExports
       /\ exports' = exports \cup
            {[id |-> nExports + 1, imageType |-> imageType, src |-> src,
              pc |-> "fetch", blob |-> NoImage, finalBlob |-> NoImage,
              finalMimeType |-> "", filename |-> NoImage, pngBlob |-> NoImage,
              log |-> << >>, written |-> NoImage,
              result |-> [toast |-> "none"]]}
       /\ nExports' = nExports + 1
       /\ last' = [op |-> op, file |-> NoFile, outcome |-> "Export"]
       /\ UNCHANGED <<session, dom, platform, clipboard, fn>>

\* script.js:1277-1283 copyCurrentImageAsFile(event)
copyCurrentImageAsFile ==
  IF processedImageBase64 = NoImage
  THEN /\ dom' = showError(dom)
       /\ last' = [op |-> "copyCurrentImageAsFile", file |-> NoFile,
                   outcome |-> "NoProcessedImage"]
       /\ UNCHANGED <<session, exportVars>>
  ELSE copyImageAsFile(processedImageBase64, "processed", "copyCurrentImageAsFile")

\* script.js:1286-1292 copyOriginalImageAsFile(event)
copyOriginalImageAsFile ==
  IF currentImageData = NoImage
  THEN /\ dom' = showError(dom)
       /\ last' = [op |-> "copyOriginalImageAsFile", file |-> NoFile,
                   outcome |-> "NoOriginalImage"]
       /\ UNCHANGED <<session, exportVars>>
  ELSE copyImageAsFile(currentImageData, "original", "copyOriginalImageAsFile")

\* copyImageAsFile without the JPEG pre-conversion: every blob is named after
\* its own type and handed to writeToClipboardWithFallback as it is
ExportFetched_native(e) ==
  /\ e \in exports /\ e.pc = "fetch"
  /\ LET blob == fetchBlob(e.src) IN
     stepExport(e, [e EXCEPT !.pc = "write1", !.blob = blob,
                             !.finalBlob = blob, !.finalMimeType = blob.type,
                             !.filename = filename(e.imageType, blob.type)],
                "Fetched")

\* script.js:1311-1343 copyImageAsFile after fetch and response.blob(): a JPEG
\* blob goes to convertImageToPNG first, any other blob is named and handed to
\* writeToClipboardWithFallback, whose first write is then pending
ExportFetched(e) ==
  /\ e \in exports /\ e.pc = "fetch"
  /\ LET blob == fetchBlob(e.src) IN
     IF blob.type = "image/jpeg" \/ blob.type = "image/jpg"
     THEN stepExport(e, [e EXCEPT !.pc = "convert0", !.blob = blob], "Fetched")
     ELSE stepExport(e, [e EXCEPT !.pc = "write1", !.blob = blob,
                                  !.finalBlob = blob, !.finalMimeType = blob.type,
                                  !.filename = filename(e.imageType, blob.type)],
                     "Fetched")

\* script.js:1328-1343 the convertImageToPNG of a JPEG blob settles
ExportPreConverted(e) ==
  /\ e \in exports /\ e.pc = "convert0"
  /\ LET c == convertImageToPNG(e.blob, platform.convert)
         log == Append(e.log, convertEvent(platform.convert))
     IN IF c.ok
        THEN stepExport(e, [e EXCEPT !.pc = "write1", !.log = log,
                                     !.finalBlob = c.blob, !.finalMimeType = "image/png",
                                     !.filename = filename(e.imageType, "image/png")],
                        "Converted")
        ELSE endExport(e, log, NoImage, c.error)

\* writeToClipboardWithFallback without its PNG stage: a rejected first write
\* goes straight to the last loop
ExportNativeWrite_noPngStage(e) ==
  /\ e \in exports /\ e.pc = "write1"
  /\ LET log == Append(e.log, writeEvent(e.finalMimeType)) IN
     IF e.finalMimeType \in platform.accepts
     THEN endExport(e, log, [mime |-> e.finalMimeType, blob |-> e.finalBlob],
                    AllFormatsError)
     ELSE LET s == sweep(e.finalBlob, e.finalMimeType, log)
          IN endExport(e, s.log, s.written, AllFormatsError)

\* writeToClipboardWithFallback without the test mimeType !== 'image/png': a
\* rejected first write always enters the PNG stage
ExportNativeWrite_alwaysPngStage(e) ==
  /\ e \in exports /\ e.pc = "write1"
  /\ LET log == Append(e.log, writeEvent(e.finalMimeType)) IN
     IF e.finalMimeType \in platform.accepts
     THEN endExport(e, log, [mime |-> e.finalMimeType, blob |-> e.finalBlob],
                    AllFormatsError)
     ELSE stepExport(e, [e EXCEPT !.pc = "convert1", !.log = log], "NativeRejected")

\* script.js:1220-1236 the first write of writeToClipboardWithFallback settles
ExportNativeWrite(e) ==
  /\ e \in exports /\ e.pc = "write1"
  /\ LET log == Append(e.log, writeEvent(e.finalMimeType)) IN
     IF e.finalMimeType \in platform.accepts
     THEN endExport(e, log, [mime |-> e.finalMimeType, blob |-> e.finalBlob],
                    AllFormatsError)
     ELSE IF e.finalMimeType # "image/png"
     THEN stepExport(e, [e EXCEPT !.pc = "convert1", !.log = log], "NativeRejected")
     ELSE LET s == sweep(e.finalBlob, e.finalMimeType, log)
          IN endExport(e, s.log, s.written, AllFormatsError)

\* script.js:1232-1245 the convertImageToPNG of the PNG stage settles
ExportFallbackConverted(e) ==
  /\ e \in exports /\ e.pc = "convert1"
  /\ LET c == convertImageToPNG(e.finalBlob, platform.convert)
         log == Append(e.log, convertEvent(platform.convert))
     IN IF c.ok
        THEN stepExport(e, [e EXCEPT !.pc = "write2", !.log = log, !.pngBlob = c.blob],
                        "Converted")
        ELSE LET s == sweep(e.finalBlob, e.finalMimeType, log)
             IN endExport(e, s.log, s.written, AllFormatsError)

\* script.js:1235-1273 the image/png write of the PNG stage settles
ExportFallbackWrite(e) ==
  /\ e \in exports /\ e.pc = "write2"
  /\ LET log == Append(e.log, writeEvent("image/png")) IN
     IF "image/png" \in platform.accepts
        THEN endExport(e, log, [mime |-> "image/png", blob |-> e.pngBlob], AllFormatsError)
        ELSE LET s == sweep(e.finalBlob, e.finalMimeType, log)
             IN endExport(e, s.log, s.written, AllFormatsError)

\* what every step of the page session leaves alone
Frame == UNCHANGED exportVars

Next ==
  \/ \E file \in CandidateFiles : FilePick(file) /\ Frame
  \/ \E file \in CandidateFiles : Paste(file) /\ Frame
  \/ \E file \in CandidateFiles \cup {NoFile} : Drop(file) /\ Frame
  \/ \E r \in fileReaders : ReaderOnload(r) /\ Frame
  \/ \E r \in fileReaders : ReaderOnerror(r) /\ Frame
  \/ \E q \in requests : AjaxSuccess(q) /\ Frame
  \/ \E q \in requests, f \in AjaxFailures : AjaxError(q, f) /\ Frame
  \/ \E b \in blobReaders : BlobReaderOnload(b) /\ Frame
  \/ \E b \in blobReaders : BlobReaderError(b) /\ Frame
  \/ DisplayResult /\ Frame
  \/ AlertFadeOut /\ Frame
  \/ ResetButton /\ Frame
  \/ \E e \in KeyEvents : Keydown(e) /\ Frame
  \/ downloadImage /\ Frame
  \/ beforeunload /\ Frame
  \/ copyCurrentImageAsFile
  \/ copyOriginalImageAsFile

Spec == Init /\ [][Next]_vars

\* The event loop runs every callback that is due: a pending file read ends
\* (onload or onerror), an outstanding $.ajax call resolves (the 60 s timeout
\* at the latest), a pending blob read ends, a due timer fires.  The user's
\* actions are not forced.
Fairness ==
  /\ WF_vars(\E r \in fileReaders : (ReaderOnload(r) \/ ReaderOnerror(r)) /\ Frame)
  /\ WF_vars(\E q \in requests :
               (AjaxSuccess(q) \/ \E f \in AjaxFailures : AjaxError(q, f)) /\ Frame)
  /\ WF_vars(\E b \in blobReaders : (BlobReaderOnload(b) \/ BlobReaderError(b)) /\ Frame)
  /\ WF_vars(DisplayResult /\ Frame)
  /\ WF_vars(AlertFadeOut /\ Frame)

SpecFair == Init /\ [][Next]_vars /\ Fairness

(* ------------------- processImage called on its own -------------------- *)
\* script.js:803 processImage() is a global function: a call of it in the
\* current state of the page, from any caller
ProcessImageCall ==
  /\ currentImageData # NoImage => nIssued < MaxAcquire
  /\ processImage(currentImageData, dom)
  /\ last' = [op |-> "processImage", file |-> NoFile,
              outcome |-> IF currentImageData = NoImage THEN "NoImageSelected"
                          ELSE "Requested"]
  /\ UNCHANGED <<currentImageData, processedImageBlob, processedImageBase64,
                 fileReaders, blobReaders, displayTimers, nReads, nAcquired>>
  /\ Frame

\* the originals the session can hold: data URIs of accepted candidates
Originals == { readAsDataURL(f) : f \in { c \in CandidateFiles : validate(c) = "Accepted" } }

\* Sessions between a file read and its resolution: nothing acquired, an
\* original without a result, or an original with its displayed result, each
\* with no or one accepted file still being read.
InitProcess ==
  /\ \E cur \in Originals \cup {NoImage}, hasResult \in BOOLEAN :
       /\ cur = NoImage => ~hasResult
       /\ currentImageData = cur
       /\ processedImageBlob = IF hasResult THEN ProcessedBlob(cur) ELSE NoImage
       /\ processedImageBase64 =
            IF hasResult THEN readAsDataURL(ProcessedBlob(cur)) ELSE NoImage
       /\ \E loading \in BOOLEAN, alert \in BOOLEAN :
            dom = [InitDom EXCEPT
                     !.pasteArea = (cur = NoImage),
                     !.originalImageContainer = (cur # NoImage),
                     !.noImagePlaceholder = ~hasResult,
                     !.processedImageContainer = hasResult,
                     !.processedImageSrc =
                        IF hasResult THEN readAsDataURL(ProcessedBlob(cur)) ELSE NoImage,
                     !.loadingState = loading,
                     !.errorAlert = alert]
  /\ \E files \in SUBSET { c \in CandidateFiles : validate(c) = "Accepted" } :
       /\ Cardinality(files) <= 1
       /\ fileReaders = { [id |-> 1, file |-> f] : f \in files }
       /\ nReads = Cardinality(files)
       /\ dom.loadingState = (files # {})
  /\ requests = {}
  /\ blobReaders = {}
  /\ displayTimers = 0
  /\ nAcquired = 0
  /\ nIssued = 0
  /\ last = [op |-> "init", file |-> NoFile, outcome |-> "none"]
  /\ platform = NoClipboard
  /\ exports = {}
  /\ clipboard = NoImage
  /\ nExports = 0
  /\ fn = NoCall

NextProcess ==
  \/ ProcessImageCall
  \/ \E r \in fileReaders : ReaderOnload(r) /\ Frame
  \/ \E r \in fileReaders : ReaderOnerror(r) /\ Frame
  \/ AlertFadeOut /\ Frame

SpecProcess == InitProcess /\ [][NextProcess]_vars

(* --------------- handleProcessingError applied on its own --------------- *)
\* (xhr, status) pairs of the error callback: jQuery's textStatus values, HTTP
\* statuses on each side of every test, and the response bodies
ErrorInputs ==
  [ status : {"timeout", "error", "abort", "parsererror"},
    code : {0, 200, 400, 404, 413, 499, 500, 503},
    body : {"", "text", "nodetail", "emptydetail", "detail"} ]

InitError ==
  /\ currentImageData = NoImage
  /\ processedImageBlob = NoImage
  /\ processedImageBase64 = NoImage
  /\ fileReaders = {}
  /\ requests = {}
  /\ blobReaders = {}
  /\ displayTimers = 0
  /\ dom = InitDom
  /\ nReads = 0
  /\ nAcquired = 0
  /\ nIssued = 0
  /\ last = [op |-> "init", file |-> NoFile, outcome |-> "none"]
  /\ platform = NoClipboard
  /\ exports = {}
  /\ clipboard = NoImage
  /\ nExports = 0
  /\ \E x \in ErrorInputs, f \in {"handleProcessingError", "ajaxError"} :
       fn = [f |-> f, in |-> x, done |-> FALSE, out |-> ""]

\* script.js:889-910 handleProcessingError(xhr, status, error) returns errorMsg
HandleProcessingErrorCall ==
  /\ fn.f = "handleProcessingError" /\ ~fn.done
  /\ fn' = [fn EXCEPT !.done = TRUE, !.out = handleProcessingError(fn.in)]
  /\ UNCHANGED <<session, dom, last, platform, exports, clipboard, nExports>>

\* script.js:856-863 the error callback of $.ajax for a failed call with
\* this textStatus, HTTP status and response body: the message it shows
AjaxErrorCall ==
  /\ fn.f = "ajaxError" /\ ~fn.done
  /\ fn' = [fn EXCEPT !.done = TRUE, !.out = handleProcessingError(jqXHR(fn.in))]
  /\ UNCHANGED <<session, dom, last, platform, exports, clipboard, nExports>>

NextError == HandleProcessingErrorCall \/ AjaxErrorCall

SpecError == InitError /\ [][NextError]_vars

(* ------------------- formatFileSize applied on its own ------------------ *)
\* script.js:1136  const k = 1024
k == 1024

\* script.js:1137  const sizes = ['B', 'KB', 'MB', 'GB']
sizes == <<"B", "KB", "MB", "GB">>

\* A byte count as its base-k digits, most significant first and without
\* leading zeros (<<0>> is zero): file.size can reach 2^53, beyond the
\* integers of the model checker.
RECURSIVE digits(_)
digits(n) == IF n < k THEN <<n>> ELSE Append(digits(n \div k), n % k)

\* a > b on byte counts
exceeds(a, b) ==
  \/ Len(a) > Len(b)
  \/ /\ Len(a) = Len(b)
     /\ \E i \in 1..Len(a) :
          /\ a[i] > b[i]
          /\ \A j \in 1..(i - 1) : a[j] = b[j]

\* script.js:1134-1140 formatFileSize(bytes): i = floor(log(bytes) / log(k))
\* is the number of digits less one; the number shown is bytes / k^i rounded
\* to one decimal (kept in tenths; digits after the third are zero in the
\* inputs); the unit is sizes[i], undefined beyond the end of the array.
formatFileSize(bytes) ==
  IF bytes = <<0>> THEN [tenths |-> 0, unit |-> "B"]
  ELSE LET i == Len(bytes) - 1
           d2 == IF Len(bytes) >= 2 THEN bytes[2] ELSE 0
           d3 == IF Len(bytes) >= 3 THEN bytes[3] ELSE 0
       IN [tenths |-> 10 * bytes[1] + (20 * (d2 * k + d3) + k * k) \div (2 * k * k),
           unit |-> IF i + 1 \in DOMAIN sizes THEN sizes[i + 1] ELSE "undefined"]

\* file sizes on each side of every unit and of the 10 MB limit
SizeInputs ==
  { <<0>> } \cup
  { [i \in 1..n |-> IF i = 1 THEN a ELSE IF i = 2 THEN b ELSE IF i = 3 THEN c ELSE 0] :
      n \in 1..MaxDigits, a \in {1, 9, 10, 11, 1023}, b \in {0, 512, 1023}, c \in {0, 1} }

\* the page as loaded, whatever function is applied on its own
IdlePage ==
  /\ currentImageData = NoImage
  /\ processedImageBlob = NoImage
  /\ processedImageBase64 = NoImage
  /\ fileReaders = {}
  /\ requests = {}
  /\ blobReaders = {}
  /\ displayTimers = 0
  /\ dom = InitDom
  /\ nReads = 0
  /\ nAcquired = 0
  /\ nIssued = 0
  /\ last = [op |-> "init", file |-> NoFile, outcome |-> "none"]
  /\ platform = NoClipboard
  /\ exports = {}
  /\ clipboard = NoImage
  /\ nExports = 0

\* script.js:1143-1151 getImageFormat(dataUrl)
getImageFormat(dataUrl) ==
  IF startsWith(dataUrl, "data:image/jpeg") THEN "JPEG"
  ELSE IF startsWith(dataUrl, "data:image/png") THEN "PNG"
  ELSE IF startsWith(dataUrl, "data:image/gif") THEN "GIF"
  ELSE IF startsWith(dataUrl, "data:image/webp") THEN "WEBP"
  ELSE IF startsWith(dataUrl, "data:image/svg") THEN "SVG"
  ELSE IF startsWith(dataUrl, "data:image/bmp") THEN "BMP"
  ELSE "Unknown"

\* script.js:785-790 the info line showOriginalImage(file) writes under the
\* original: `${file.name} • ${fileSize} • ${imageFormat}` (the name is
\* copied as it is and left out); no handler reads the line back
imageInfo(file) ==
  [fileSize |-> formatFileSize(file.size), imageFormat |-> getImageFormat(file.type)]

\* the image types a browser reports for the formats the page names, and one
\* it does not name
InfoTypes ==
  {"image/jpeg", "image/png", "image/gif", "image/webp", "image/svg+xml",
   "image/bmp", "image/jpg"}

\* the files showOriginalImage can be given: handleImageFile has accepted
\* them, so the type is an image type and the size is at most maxSize
InfoFiles ==
  { [type |-> t, size |-> x] :
      t \in InfoTypes, x \in { y \in SizeInputs : ~exceeds(y, digits(maxSize)) } }

\* script.js:1295 the image kinds copyImageAsFile can be called with ('image'
\* is the parameter's default, "other" any further value) and the types the
\* blob to export can declare, with and without a subtype
FilenameInputs ==
  { [imageType |-> kind, mimeType |-> t] :
      kind \in {"processed", "original", "image", "other"},
      t \in {"image/png", "image/jpeg", "image/webp", "image/gif", "image/bmp",
             "image/svg+xml", "text/plain", "image/", "image", ""} }

InitFormat ==
  /\ IdlePage
  /\ \/ \E x \in SizeInputs :
          fn = [f |-> "formatFileSize", in |-> x, done |-> FALSE, out |-> NoImage]
     \/ \E file \in InfoFiles :
          fn = [f |-> "showOriginalImage", in |-> file, done |-> FALSE, out |-> NoImage]
     \/ \E x \in FilenameInputs :
          fn = [f |-> "filename", in |-> x, done |-> FALSE, out |-> NoImage]

\* script.js:737 formatFileSize(file.size), as the too-large message embeds it
FormatFileSizeCall ==
  /\ fn.f = "formatFileSize" /\ ~fn.done
  /\ fn' = [fn EXCEPT !.done = TRUE, !.out = formatFileSize(fn.in)]
  /\ UNCHANGED <<session, dom, last, platform, exports, clipboard, nExports>>

\* script.js:785-790 showOriginalImage(file) composing the info line
ImageInfoCall ==
  /\ fn.f = "showOriginalImage" /\ ~fn.done
  /\ fn' = [fn EXCEPT !.done = TRUE, !.out = imageInfo(fn.in)]
  /\ UNCHANGED <<session, dom, last, platform, exports, clipboard, nExports>>

\* script.js:1334-1339 copyImageAsFile naming the file to export
FilenameCall ==
  /\ fn.f = "filename" /\ ~fn.done
  /\ fn' = [fn EXCEPT !.done = TRUE, !.out = filename(fn.in.imageType, fn.in.mimeType)]
  /\ UNCHANGED <<session, dom, last, platform, exports, clipboard, nExports>>

NextFormat ==
  \/ FormatFileSizeCall
  \/ ImageInfoCall
  \/ FilenameCall

SpecFormat == InitFormat /\ [][NextFormat]_vars

(* --------------------- the clipboard export on its own ------------------ *)
\* originals of the four types the export distinguishes
ExportSources ==
  { readAsDataURL(File(supportedTypes[i], maxSize)) : i \in 1..Len(supportedTypes) }

\* Sessions at rest: nothing acquired; an original whose processing failed;
\* an original with its displayed result.
SessionsAtRest ==
  { [cur |-> NoImage, blob |-> NoImage, b64 |-> NoImage, dom |-> InitDom] }
  \cup { [cur |-> o, blob |-> NoImage, b64 |-> NoImage,
          dom |-> [InitDom EXCEPT !.pasteArea = FALSE,
                                  !.originalImageContainer = TRUE]] :
         o \in ExportSources }
  \cup { [cur |-> o, blob |-> ProcessedBlob(o),
          b64 |-> readAsDataURL(ProcessedBlob(o)),
          dom |-> [InitDom EXCEPT !.pasteArea = FALSE,
                                  !.originalImageContainer = TRUE,
                                  !.noImagePlaceholder = FALSE,
                                  !.processedImageContainer = TRUE,
                                  !.processedImageSrc = readAsDataURL(ProcessedBlob(o))]] :
         o \in ExportSources }

InitExport ==
  /\ \E s \in SessionsAtRest :
       /\ currentImageData = s.cur
       /\ processedImageBlob = s.blob
       /\ processedImageBase64 = s.b64
       /\ dom = s.dom
  /\ fileReaders = {}
  /\ requests = {}
  /\ blobReaders = {}
  /\ displayTimers = 0
  /\ nReads = 0
  /\ nAcquired = 0
  /\ nIssued = 0
  /\ last = [op |-> "init", file |-> NoFile, outcome |-> "none"]
  /\ platform \in Platforms
  /\ exports = {}
  /\ clipboard = NoImage
  /\ nExports = 0
  /\ fn = NoCall

NextExport ==
  \/ copyCurrentImageAsFile
  \/ copyOriginalImageAsFile
  \/ \E e \in exports : ExportFetched(e)
  \/ \E e \in exports : ExportPreConverted(e)
  \/ \E e \in exports : ExportNativeWrite(e)
  \/ \E e \in exports : ExportFallbackConverted(e)
  \/ \E e \in exports : ExportFallbackWrite(e)
  \/ AlertFadeOut /\ Frame

SpecExport == InitExport /\ [][NextExport]_vars

(* ------------------------- derived notions ---------------------------- *)
\* The session phase as the page shows it: the script keeps no phase
\* variable, the visible containers are the phase.
Phase ==
  IF dom.processingContainer THEN "Processing"
  ELSE IF dom.processedImageContainer THEN "Result"
  ELSE IF dom.originalImageContainer THEN "Failed"
  ELSE "Idle"

AcquirePaths == {"paste", "drop", "filePick"}

\* the last handler was an input path that called handleImageFile
Handled == last.op \in AcquirePaths /\ last.outcome \in {"WrongType", "TooLarge", "Reading"}

(* ------------------------------ claims -------------------------------- *)

\* C1: when a request resolves (success or failure) that is not the request
\* of the current original (a newer image was acquired while it was
\* outstanding), the resolution is discarded: result, error and the visible
\* phase stay as they were.
C1_StaleResolutionDiscarded ==
  [][ \A q \in requests :
        (q \notin requests' /\ currentImageData # NoImage /\ q.id < nIssued)
          => UNCHANGED <<processedImageBlob, processedImageBase64, blobReaders, dom>>
    ]_vars

\* C2: at most one processing request is outstanding in every reachable state.
C2_SingleFlight == Cardinality(requests) <= 1

\* C3 (as stated): every candidate handed to handleImageFile whose size
\* exceeds maxSize is rejected as too large.
C3_OversizeIsTooLarge ==
  (Handled /\ last.file.size > maxSize) => last.outcome = "TooLarge"

\* C3 (amended): handleImageFile rejects every candidate larger than maxSize,
\* as too large when its type starts with image/ and as wrong type otherwise,
\* showing the error, starting no file read and issuing no request; an image
\* of exactly maxSize bytes is accepted and its read is started.
C3_OversizeRejected ==
  [][ (last'.op \in AcquirePaths /\ last'.outcome \in {"WrongType", "TooLarge", "Reading"}) =>
        /\ (last'.file.size > maxSize) =>
             /\ last'.outcome = IF startsWith(last'.file.type, "image/")
                                THEN "TooLarge" ELSE "WrongType"
             /\ dom'.errorAlert
             /\ UNCHANGED <<fileReaders, requests, nReads, nIssued>>
        /\ (last'.file.size = maxSize /\ startsWith(last'.file.type, "image/")) =>
             /\ last'.outcome = "Reading"
             /\ \E r \in fileReaders' \ fileReaders : r.file = last'.file
    ]_vars

C3_Witness ==
  /\ Handled
  /\ last.file.size > maxSize
  /\ last.outcome = "TooLarge"
  /\ fileReaders = {} /\ nIssued = 0

\* C4 (as stated): on every input path a candidate whose type does not start
\* with image/ is rejected with a wrong-type error.
C4_WrongTypeOnEveryPath ==
  (last.op \in AcquirePaths /\ last.file # NoFile /\ ~startsWith(last.file.type, "image/"))
    => last.outcome \in {"WrongType", "DropInvalid"}

\* C4 (amended): a candidate whose type does not start with image/ is never
\* acquired.  handleImageFile rejects it with the wrong-type error, checking
\* the type before the size, on the file-pick path and on the paste path when
\* the type contains "image"; the drop handler rejects it with its own
\* invalid-image error; a pasted item whose type does not contain "image" is
\* skipped without any error.
C4_WrongTypeNeverAcquired ==
  [][ (last'.op \in AcquirePaths /\ last'.file # NoFile
         /\ ~startsWith(last'.file.type, "image/")) =>
        /\ last'.outcome =
             CASE last'.op = "filePick" -> "WrongType"
               [] last'.op = "drop"     -> "DropInvalid"
               [] last'.op = "paste"    ->
                    IF indexOf(last'.file.type, "image") # -1
                    THEN "WrongType" ELSE "Ignored"
        /\ IF last'.outcome = "Ignored" THEN dom' = dom ELSE dom'.errorAlert
        /\ UNCHANGED <<currentImageData, fileReaders, requests, nReads, nIssued>>
    ]_vars

C4_Witness ==
  /\ last.op = "filePick"
  /\ ~startsWith(last.file.type, "image/")
  /\ last.file.size > maxSize
  /\ last.outcome = "WrongType"

\* C5: a rejected acquisition leaves original, result and phase as they were,
\* starts no read and issues no request.
C5_RejectionKeepsSession ==
  [][ (last'.op \in AcquirePaths /\ last'.outcome \in {"WrongType", "TooLarge", "DropInvalid"}) =>
        /\ UNCHANGED <<currentImageData, processedImageBlob, processedImageBase64,
                       fileReaders, requests, blobReaders, nReads, nIssued>>
        /\ Phase' = Phase
    ]_vars

C5_Witness ==
  /\ last.op \in AcquirePaths
  /\ last.outcome = "TooLarge"
  /\ currentImageData # NoImage
  /\ processedImageBlob # NoImage
  /\ Phase = "Result"

C7_NoAutomaticRetry ==
  /\ [][ last'.op = "ajaxError" => (nIssued' = nIssued /\ requests' \subseteq requests) ]_vars
  /\ [][ nIssued' # nIssued => last'.op = "readerOnload" ]_vars
  /\ [](nIssued <= nAcquired)

C7_Witness ==
  /\ last.op = "ajaxError"
  /\ last.outcome = "Timeout"
  /\ requests = {}
  /\ nIssued = nAcquired

\* C8: after a processing request has failed (and no other is outstanding) no
\* result is present: neither the blob downloadImage saves nor the data URI
\* copyCurrentImageAsFile exports.
C8_FailedHasNoResult ==
  (last.op = "ajaxError" /\ requests = {})
    => (processedImageBlob = NoImage /\ processedImageBase64 = NoImage)

\* C9: while the request of the current original is outstanding no result is
\* present.
C9_NewAcquisitionDiscardsResult ==
  (currentImageData # NoImage /\ \E q \in requests : q.id = nIssued)
    => (processedImageBlob = NoImage /\ processedImageBase64 = NoImage)

\* C10: right after resetTool (button or Ctrl+R / Cmd+R) the session is Idle:
\* original, both forms of the result and the error are absent.
C10_ResetYieldsIdle ==
  last.outcome = "Reset" =>
    /\ currentImageData = NoImage
    /\ processedImageBlob = NoImage
    /\ processedImageBase64 = NoImage
    /\ ~dom.errorAlert
    /\ Phase = "Idle"
    /\ dom.pasteArea /\ dom.noImagePlaceholder

C10_Witness ==
  /\ last.op = "keydown"
  /\ last.outcome = "Reset"
  /\ requests # {}
  /\ blobReaders # {}

(* ------------------------ clipboard export claims ----------------------- *)
\* the exports that ended with the success toast / with the error toast
Succeeded == { e \in exports : e.pc = "done" /\ e.result.toast = "success" }
Failed == { e \in exports : e.pc = "done" /\ e.result.toast = "error" }

\* the MIME type of the blob an export fetched from its source
sourceType(e) == e.src.mime

\* the writes an export has attempted, in order
writes(e) == SelectSeq(e.log, LAMBDA ev : ev.ev = "write")

\* C11: whenever an export succeeds, the extension of the file name shown in
\* the success toast is the format of the blob that export wrote to the
\* clipboard, for every source type and every platform.
C11_ExtensionIsWrittenFormat ==
  \A e \in Succeeded :
    chars(e.written.blob.type) = chars("image/") \o e.result.filename.extension

\* the platform of Scenario D: image/jpeg writes rejected, image/png accepted
RejectsJpegAcceptsPng ==
  /\ platform.clipboard
  /\ "image/jpeg" \notin platform.accepts
  /\ "image/png" \in platform.accepts

\* the finished exports of a processed JPEG
ProcessedJpegDone ==
  { e \in exports : /\ e.pc = "done" /\ e.imageType = "processed"
                    /\ sourceType(e) = "image/jpeg" }

C13_NativeWriteFirst ==
  \A e \in exports :
    /\ writes(e) # << >> => writes(e)[1].mime = sourceType(e)
    /\ \A i \in 1..Len(e.log) :
         e.log[i].ev = "convert" =>
           \E j \in 1..(i - 1) :
             e.log[j] = [ev |-> "write", mime |-> sourceType(e), ok |-> FALSE]
    /\ (e.pc = "done" /\ sourceType(e) \in platform.accepts) =>
         /\ e \in Succeeded
         /\ chars(sourceType(e)) = chars("image/") \o e.result.filename.extension

\* an export's PNG re-encodes, and the image/png writes that follow one
converts(e) == { i \in 1..Len(e.log) : e.log[i].ev = "convert" }
pngWriteAfter(e, i) ==
  \E j \in (i + 1)..Len(e.log) : e.log[j].ev = "write" /\ e.log[j].mime = "image/png"

\* the failed exports of a non-PNG source whose type the platform rejects
FailedNonPng ==
  { e \in Failed : sourceType(e) # "image/png" /\ sourceType(e) \notin platform.accepts }

C15_AllRejectedAggregates ==
  \A e \in exports :
    LET w == writes(e)
        allRejected == \A i \in 1..Len(w) : ~w[i].ok
    IN e.pc = "done" =>
         /\ (w # << >> /\ allRejected) =>
              /\ e \in Failed
              /\ e.result.error.message = "AllFormatsRejected"
              /\ Len(reasons(e.result.error)) = Len(w)
         /\ (e \in Failed /\ e.result.error.message = "AllFormatsRejected") =>
              allRejected

\* the handlers and continuations of the clipboard export
ExportOps == {"copyImageAsFile", "copyCurrentImageAsFile", "copyOriginalImageAsFile"}

\* C16: a step of an export (the copy buttons, copyImageAsFile and each of its
\* continuations), successful or not and whatever other export is in flight,
\* leaves original, result and phase unchanged and issues no request.
C16_ExportLeavesSession ==
  [][last'.op \in ExportOps =>
       /\ UNCHANGED <<currentImageData, processedImageBlob, processedImageBase64>>
       /\ UNCHANGED <<requests, nIssued>>
       /\ Phase' = Phase]_vars

C16_Witness ==
  /\ last.op = "copyImageAsFile"
  /\ processedImageBase64 # NoImage
  /\ \E e1 \in Failed : \E e2 \in exports : e2.pc = "write1" /\ e2.id < e1.id

(* ---------------------------- processing claims ------------------------- *)
\* C17: a request is never issued before an acquisition has resolved: every
\* step that issues a request ends with an original present, which is the
\* request's payload; and processImage called with no original shows an error
\* and issues no request.
C17_RequestNeedsOriginal ==
  [][/\ nIssued' # nIssued =>
          /\ currentImageData' # NoImage
          /\ \A q \in requests' \ requests : q.img = currentImageData'
     /\ (last'.op = "processImage" /\ currentImageData = NoImage) =>
          /\ last'.outcome = "NoImageSelected"
          /\ dom'.errorAlert
          /\ UNCHANGED <<requests, nIssued, currentImageData>>]_vars

C17_Witness ==
  /\ last = [op |-> "processImage", file |-> NoFile, outcome |-> "NoImageSelected"]
  /\ currentImageData = NoImage /\ requests = {} /\ dom.errorAlert

\* C18: when the FileReader of an accepted file fails, original and result
\* keep the values they had, no request is issued, the loading indicator is
\* cleared (and the read error is shown).
C18_ReadErrorKeepsSession ==
  [][last'.op = "readerOnerror" =>
       /\ UNCHANGED <<currentImageData, processedImageBlob, processedImageBase64>>
       /\ UNCHANGED <<requests, nIssued>>
       /\ ~dom'.loadingState
       /\ dom'.errorAlert /\ last'.outcome = "ReadError"]_vars

C18_Witness ==
  /\ last.op = "readerOnerror"
  /\ currentImageData # NoImage /\ processedImageBlob # NoImage
  /\ ~dom.loadingState /\ nIssued = 1

\* the messages handleProcessingError shows for an HTTP 400: the server's
\* detail, or one of its two fixed texts
ServerRejected == {"ServerDetail", "ProcessingError", "UnsupportedFormat"}

\* C19: handleProcessingError classifies every (textStatus, HTTP status) pair
\* with the precedence timeout, 413, 400, status 0, status >= 500, generic;
\* the message is never empty.
C19_ErrorPrecedence ==
  (fn.f = "handleProcessingError" /\ fn.done) =>
    LET x == fn.in
        timeout == x.status = "timeout"
    IN /\ timeout => fn.out = "Timeout"
       /\ (~timeout /\ x.code = 413) => fn.out = "PayloadTooLarge"
       /\ (~timeout /\ x.code = 400) => fn.out \in ServerRejected
       /\ (~timeout /\ x.code = 0) => fn.out = "NetworkFailure"
       /\ (~timeout /\ x.code \notin {413, 400, 0} /\ x.code >= 500) =>
            fn.out = "ServerUnavailable"
       /\ (~timeout /\ x.code \notin {413, 400, 0} /\ x.code < 500) =>
            fn.out = "ProcessingError"
       /\ fn.out # ""

C19_Witness ==
  /\ fn.f = "handleProcessingError" /\ fn.done
  /\ fn.in.status = "timeout" /\ fn.in.code = 0 /\ fn.out = "Timeout"

\* C20: downloadImage saves only when a result is present and then saves the
\* result of the current session (the result of the present original); with
\* no result it shows an error, saves nothing and changes no session state.
C20_DownloadSavesCurrentResult ==
  [][last'.op = "downloadImage" =>
       IF processedImageBlob = NoImage
       THEN /\ last'.outcome = "NoProcessedImage"
            /\ dom'.errorAlert
            /\ UNCHANGED session
       ELSE /\ last'.outcome = "Saved"
            /\ currentImageData # NoImage
            /\ last'.file.bytes = ProcessedBlob(currentImageData).bytes
            /\ UNCHANGED session]_vars

(* ------------------------------ more claims ----------------------------- *)
\* C21: for every file size above 10 * 2^20 bytes the size shown in the
\* too-large message carries a unit among B/KB/MB/GB, namely that of the
\* largest power of 1024 not exceeding the size; the unit is never undefined,
\* sizes of 1024^4 bytes and above included.
C21_UnitAlwaysDefined ==
  (fn.f = "formatFileSize" /\ fn.done /\ exceeds(fn.in, digits(maxSize))) =>
    /\ fn.out.unit \in {"B", "KB", "MB", "GB"}
    /\ Len(fn.in) <= 4 => fn.out.unit = <<"B", "KB", "MB", "GB">>[Len(fn.in)]

\* a keydown of the Enter key without modifiers
EnterKey == [key |-> "Enter", ctrlKey |-> FALSE, metaKey |-> FALSE]

\* C22: pressing Enter while an image is loaded issues one request whose
\* payload is the current original; pressing Enter with no image loaded
\* issues no request.
C22_EnterProcesses ==
  [][Keydown(EnterKey) =>
       IF currentImageData # NoImage
       THEN /\ nIssued' = nIssued + 1
            /\ \E q \in requests' \ requests : q.img = currentImageData
       ELSE UNCHANGED <<requests, nIssued>>]_vars

\* the MIME types of an export's clipboard writes, in order
writeTypes(e) == [i \in 1..Len(writes(e)) |-> writes(e)[i].mime]

\* C23: the last loop of writeToClipboardWithFallback never writes: every
\* candidate is skipped, so an export attempts at most two clipboard writes,
\* the native one and then image/png.
C23_SweepNeverWrites ==
  \A e \in exports :
    /\ e.finalBlob # NoImage => sweepTypes(e.finalBlob, e.finalMimeType) = << >>
    /\ \/ writeTypes(e) = << >>
       \/ writeTypes(e) = <<e.finalMimeType>>
       \/ writeTypes(e) = <<e.finalMimeType, "image/png">> /\ e.finalMimeType # "image/png"

C23_Witness ==
  \E e \in Failed :
    /\ Len(writes(e)) = 2
    /\ sourceType(e) = "image/webp"
    /\ {"image/jpeg", "image/gif"} \subseteq platform.accepts

\* C24: for a PNG source whose image/png write is rejected the PNG re-encode
\* is skipped and the export fails with the all-formats-rejected error after
\* exactly one clipboard write attempt.
C24_PngSourceFailsAfterOneWrite ==
  \A e \in exports :
    (e.pc = "done" /\ sourceType(e) = "image/png" /\ "image/png" \notin platform.accepts) =>
      /\ e \in Failed
      /\ e.result.error = AllFormatsError
      /\ e.log = << [ev |-> "write", mime |-> "image/png", ok |-> FALSE] >>

C24_Witness ==
  \E e \in Failed :
    /\ sourceType(e) = "image/png" /\ Len(e.log) = 1
    /\ platform.accepts = {"image/jpeg", "image/webp", "image/gif"}

\* C25: for an HTTP 400 failure the server's detail is shown verbatim when the
\* body is JSON with a non-empty detail, the generic message when the body is
\* JSON without a detail, the unsupported-format message when the body is not
\* JSON; for every other failure no server text appears in the message.
C25_ServerDetailShown ==
  (fn.f = "ajaxError" /\ fn.done) =>
    LET x == fn.in
        is400 == x.status # "timeout" /\ x.code = 400
    IN /\ (is400 /\ x.body = "detail") => fn.out = "ServerDetail"
       /\ (is400 /\ x.body \in {"nodetail", "emptydetail"}) => fn.out = "ProcessingError"
       /\ (is400 /\ x.body \in {"text", ""}) => fn.out = "UnsupportedFormat"
       /\ ~is400 => fn.out # "ServerDetail"

\* a result is fully available: the blob downloadImage saves and the data URI
\* copyCurrentImageAsFile exports
ResultAvailable ==
  /\ Phase = "Result"
  /\ processedImageBlob # NoImage /\ processedImageBase64 # NoImage

\* C26: under fair scheduling of the callbacks every issued request resolves,
\* and a session in Processing leaves it: a result becomes fully available or
\* the session becomes Failed (or the user resets it to Idle); no execution
\* stays in Processing forever.
C26_ProcessingEnds ==
  /\ \A id \in 1..MaxAcquire :
       (\E q \in requests : q.id = id) ~> ~(\E q \in requests : q.id = id)
  /\ (Phase = "Processing") ~> (ResultAvailable \/ Phase \in {"Failed", "Idle"})

\* C27: whenever both stored forms of the result are present, the data URI is
\* the encoding of the stored blob, so downloadImage and
\* copyCurrentImageAsFile export the same image under every interleaving.
C27_BlobAndBase64Agree ==
  (processedImageBlob # NoImage /\ processedImageBase64 # NoImage) =>
    processedImageBase64 = readAsDataURL(processedImageBlob)

\* C28: when two files A then B are accepted in that order and both file reads
\* complete, in either order, the original ends up being B and the last
\* request issued carries B.  (The step below is the onload that completes
\* the second of exactly two reads.)
C28_LatestAcquisitionWins ==
  [][\A r \in fileReaders :
       (/\ last'.op = "readerOnload" /\ r \notin fileReaders'
        /\ nReads = 2 /\ fileReaders = {r} /\ nAcquired = 1
        /\ currentImageData # NoImage) =>
         LET B == IF r.id = 2 THEN readAsDataURL(r.file) ELSE currentImageData
         IN /\ currentImageData' = B
            /\ \A q \in requests' \ requests : q.img = B]_vars

\* C29: after a reset with a request or a blob read still pending the session
\* stays Idle with original and result absent until the next acquisition
\* resolves (no late callback re-populates the result), and
\* processedImageBase64 present implies processedImageBlob present.
C29_ResetIsFinal ==
  /\ currentImageData = NoImage =>
       /\ processedImageBlob = NoImage /\ processedImageBase64 = NoImage
       /\ Phase = "Idle"
  /\ processedImageBase64 # NoImage => processedImageBlob # NoImage

\* the three views of the result panel that are visible
visibleViews ==
  { v \in {"noImagePlaceholder", "processingContainer", "processedImageContainer"} :
      dom[v] }

\* C30: at most one of the placeholder, the processing indicator and the
\* processed image is visible; in particular no processed image is visible
\* next to the processing indicator of a newer acquisition.
C30_OneViewVisible == Cardinality(visibleViews) <= 1

\* the current original has a result of its own: the stored result is the
\* server's answer to the current original
OwnResultPresent ==
  /\ currentImageData # NoImage
  /\ processedImageBlob = ProcessedBlob(currentImageData)

\* C31: the beforeunload handler asks for confirmation exactly when an
\* original is present and its own result is not (request outstanding or
\* failed); it does not ask when no original is present or when the current
\* original's result is present.
C31_LeaveGuardMatchesResult ==
  last.op = "beforeunload" =>
    (last.outcome = "Confirm" <=>
       (currentImageData # NoImage /\ ~OwnResultPresent))

\* C32: on a platform without navigator.clipboard (or without its write
\* function) a copy button whose source is present, i.e. a call of
\* copyImageAsFile, reports the unsupported-browser error and does nothing
\* else: no export starts (so nothing is fetched, re-encoded or written), the
\* clipboard keeps its content, and original, result, phase and the pending
\* work of the session are unchanged.
C32_NoClipboardReportsOnly ==
  [][(/\ ~platform.clipboard
      /\ \/ last'.op = "copyCurrentImageAsFile" /\ processedImageBase64 # NoImage
         \/ last'.op = "copyOriginalImageAsFile" /\ currentImageData # NoImage) =>
       /\ last'.outcome = "ClipboardUnsupported"
       /\ dom'.errorAlert
       /\ exports' = {} /\ nExports' = nExports
       /\ clipboard' = clipboard
       /\ UNCHANGED session
       /\ Phase' = Phase]_vars

C32_Witness ==
  /\ ~platform.clipboard
  /\ last.op = "copyCurrentImageAsFile" /\ last.outcome = "ClipboardUnsupported"
  /\ processedImageBase64 # NoImage
  /\ dom.errorAlert /\ exports = {}

\* C33: copyCurrentImageAsFile reports an error and starts no export exactly
\* when the result's data-URI form is absent, copyOriginalImageAsFile exactly
\* when the original is absent; and whenever downloadImage has a result to
\* save (processedImageBlob present), copyCurrentImageAsFile has the same
\* result to copy (processedImageBase64 is that blob's data URI).
C33_DownloadImpliesCopy ==
  /\ last.op = "copyCurrentImageAsFile" =>
       (last.outcome = "NoProcessedImage" <=> processedImageBase64 = NoImage)
  /\ last.op = "copyOriginalImageAsFile" =>
       (last.outcome = "NoOriginalImage" <=> currentImageData = NoImage)
  /\ processedImageBlob # NoImage =>
       processedImageBase64 = readAsDataURL(processedImageBlob)

\* C34: the format label showOriginalImage displays for an accepted file
\* matches the file's MIME type: JPEG, PNG, GIF, WEBP, SVG, BMP for
\* image/jpeg, image/png, image/gif, image/webp, image/svg+xml, image/bmp,
\* and Unknown only for other types.
C34_LabelMatchesType ==
  (fn.f = "showOriginalImage" /\ fn.done) =>
    fn.out.imageFormat =
      (CASE fn.in.type = "image/jpeg"    -> "JPEG"
         [] fn.in.type = "image/png"     -> "PNG"
         [] fn.in.type = "image/gif"     -> "GIF"
         [] fn.in.type = "image/webp"    -> "WEBP"
         [] fn.in.type = "image/svg+xml" -> "SVG"
         [] fn.in.type = "image/bmp"     -> "BMP"
         [] OTHER                        -> "Unknown")

\* the characters of a MIME type after its first slash (none without a slash)
subtype(mimeType) ==
  LET m == chars(mimeType)
      slashes == { i \in 1..Len(m) : m[i] = "/" }
  IN IF slashes = {} THEN << >>
     ELSE SubSeq(m, 1 + CHOOSE i \in slashes : \A j \in slashes : i <= j, Len(m))

\* C35: the prefix of the exported file name depends on the image kind alone:
\* docuscan_enhanced for 'processed', docuscan_original for 'original',
\* docuscan_image for any other value; the extension is the subtype of the
\* MIME type the name is computed from, or png when that subtype is empty.
C35_NameFromKindAndType ==
  (fn.f = "filename" /\ fn.done) =>
    /\ fn.out.prefix =
         (CASE fn.in.imageType = "processed" -> "docuscan_enhanced"
            [] fn.in.imageType = "original"  -> "docuscan_original"
            [] OTHER                         -> "docuscan_image")
    /\ fn.out.extension =
         (IF subtype(fn.in.mimeType) = << >> THEN <<"p","n","g">>
          ELSE subtype(fn.in.mimeType))

C35_Witness ==
  /\ fn.f = "filename" /\ fn.done
  /\ fn.in.imageType = "other" /\ fn.in.mimeType = "image/"
  /\ fn.out = [prefix |-> "docuscan_image", extension |-> <<"p","n","g">>]
====
